---- MODULE Spec2Model ----
(***************************************************************************)
(* PSII efficiency analysis (plantcv.photosynthesis.analyze_yii) and its   *)
(* histogram builder (_create_histogram), as a state machine over the      *)
(* process-wide Outputs store.                                             *)
(*                                                                         *)
(* Floating point values are modelled exactly: a float is a record         *)
(* [k, n, d], k in {"fin", "nan", "inf", "ninf"}; a finite value is the    *)
(* reduced fraction n/d with d > 0.  The frames hold small non-negative    *)
(* integers, so every quotient (Fm - F0) / Fm is a fraction of small       *)
(* integers: its float is the correctly rounded fraction, rounding keeps   *)
(* order and equality of such fractions, and the fractions that coincide   *)
(* with a histogram edge are dyadic (1/4, 1/2, 3/4, 1), which floats hold  *)
(* exactly.                                                                *)
(*                                                                         *)
(* The stacks are those the readers produce: a dark-adapted array holds    *)
(* the frames F0 and Fm, a light-adapted one Fp and Fmp, there is at least *)
(* one measurement, and the measurement coordinate is unique and           *)
(* increasing, so that groupby('measurement') keeps the axis order.        *)
(***************************************************************************)
EXTENDS Integers, Sequences, FiniteSets, TLC

VARIABLES
    ps_da,               \* argument of the last call: the fluorescence DataArray
    mask,                \* argument of the last call: the mask array
    measurement_labels,  \* argument of the last call: <<"None">> tag or the list
    raised,              \* the exception the last call ended with ("" when it returned)
    ret,                 \* <<yii, hist_fig>> the last call returned (<<>> when it raised)
    observations,        \* plantcv.outputs observations, in the order recorded
    images,              \* plantcv.outputs.images
    debug,               \* the visuals handed to _debug, in order
    yii_img,             \* argument of the last direct _create_histogram call
    hist_ret             \* <<hist_df, hist_fig>> of the last direct _create_histogram call

vars == <<ps_da, mask, measurement_labels, raised, ret, observations, images,
          debug, yii_img, hist_ret>>

----------------------------------------------------------------------------
(* Bounds *)

\* frames hold the integers 0..MaxVal
MaxVal == 2
\* the store is followed for at most MaxImages successful calls
MaxImages == 2
\* _create_histogram is applied to arrays of at most MaxLen values
MaxLen == 3

(* Program constants *)

\* number of histogram bins
NBins == 100

----------------------------------------------------------------------------
(* Floats *)

Fin(n, d) == [k |-> "fin", n |-> n, d |-> d]
NaN == [k |-> "nan", n |-> 0, d |-> 1]
Inf == [k |-> "inf", n |-> 1, d |-> 1]
NegInf == [k |-> "ninf", n |-> -1, d |-> 1]

Abs(i) == IF i < 0 THEN -i ELSE i

RECURSIVE GCD(_, _)
GCD(a, b) == IF b = 0 THEN a ELSE GCD(b, a % b)

\* the fraction n/d, d # 0, in lowest terms with a positive denominator
Frac(n, d) ==
    LET g == GCD(Abs(n), Abs(d))
        s == IF d < 0 THEN -1 ELSE 1
    IN  Fin(s * (n \div g), s * (d \div g))

\* ps_da.astype('float') of one integer element
AsFloat(i) == Fin(i, 1)

\* a - b of two floats that are finite or nan
FSub(a, b) ==
    IF a.k = "nan" \/ b.k = "nan" THEN NaN
    ELSE Frac(a.n * b.d - b.n * a.d, a.d * b.d)

\* a / b of two floats that are finite or nan (numpy: x/0 is +-inf, 0/0 is nan)
FDiv(a, b) ==
    IF a.k = "nan" \/ b.k = "nan" THEN NaN
    ELSE IF b.n = 0
         THEN (IF a.n = 0 THEN NaN ELSE IF a.n > 0 THEN Inf ELSE NegInf)
         ELSE Frac(a.n * b.d, a.d * b.n)

\* a > 0 (False for nan)
GtZero(a) == a.k = "inf" \/ (a.k = "fin" /\ a.n > 0)

\* a < b of two floats that are not nan
FLess(a, b) ==
    IF a.k = "ninf" THEN b.k # "ninf"
    ELSE IF a.k = "inf" THEN FALSE
    ELSE IF b.k = "inf" THEN TRUE
    ELSE IF b.k = "ninf" THEN FALSE
    ELSE a.n * b.d < b.n * a.d

\* a <= b of two floats that are not nan
FLeq(a, b) == a = b \/ FLess(a, b)

\* (a + b) / 2 of two floats that are finite or +inf
FMean(a, b) ==
    IF a.k = "inf" \/ b.k = "inf" THEN Inf
    ELSE Frac(a.n * b.d + b.n * a.d, 2 * a.d * b.d)

----------------------------------------------------------------------------
(* Arrays.  A 2D array is flattened row-major: element i of 1..rows*cols.  *)
(* ps_da = [name, shape, frame_label, measurement, data], with             *)
(* data[i][f][j] the value of pixel i in frame f of measurement j;         *)
(* mask = [shape, dtype, data].                                            *)

\* len(np.unique(mask))
NumUnique(m) == Cardinality({m.data[i] : i \in DOMAIN m.data})

\* str.lower() of the names a DataArray carries
Lower(name) ==
    CASE name = "DarkAdapted" -> "darkadapted"
      [] name = "Chlorophyll" -> "chlorophyll"
      [] OTHER -> name

\* Where with the mask compared >= 0, which keeps every pixel
WhereMaskNotApplied(ps, m) ==
    [i \in DOMAIN ps.data |->
        [f \in DOMAIN ps.data[i] |->
            [j \in DOMAIN ps.data[i][f] |->
                IF m.data[i] >= 0 THEN AsFloat(ps.data[i][f][j]) ELSE NaN]]]

\* ps_da.astype('float').where(mask > 0, other=np.nan), mask broadcast over
\* the frame_label and measurement axes
Where(ps, m) ==
    [i \in DOMAIN ps.data |->
        [f \in DOMAIN ps.data[i] |->
            [j \in DOMAIN ps.data[i][f] |->
                IF m.data[i] > 0 THEN AsFloat(ps.data[i][f][j]) ELSE NaN]]]

\* Efficiency without the parentheses: hi - lo / hi
EfficiencyNoParentheses(da, hi, lo) ==
    [i \in DOMAIN da |->
        [j \in DOMAIN da[i][hi] |->
            LET q == FDiv(da[i][lo][j], da[i][hi][j])
            IN  IF q.k \in {"fin", "nan"} THEN FSub(da[i][hi][j], q) ELSE q]]

\* (da.sel(frame_label=hi) - da.sel(frame_label=lo)) / da.sel(frame_label=hi)
Efficiency(da, hi, lo) ==
    [i \in DOMAIN da |->
        [j \in DOMAIN da[i][hi] |->
            FDiv(FSub(da[i][hi][j], da[i][lo][j]), da[i][hi][j])]]

\* the dark-adapted formula, vectorised over the measurement axis
DarkYii(yii0) == Efficiency(yii0, "Fm", "F0")

\* the function mapped over the groups of the light-adapted array
_calc_yii(da) == Efficiency(da, "Fmp", "Fp")

\* the group of measurement j: the slice of length 1 along the measurement axis
Group(da, j) ==
    [i \in DOMAIN da |-> [f \in DOMAIN da[i] |-> <<da[i][f][j]>>]]

\* yii0.groupby('measurement', squeeze=False).map(_calc_yii): the results of
\* the groups concatenated along the measurement axis (the measurement
\* coordinate is unique and increasing, so the groups come in axis order)
LightYii(yii0, nmeas) ==
    [i \in DOMAIN yii0 |-> [j \in 1..nmeas |-> _calc_yii(Group(yii0, j))[i][1]]]

\* yii.isel({'measurement': j}).values, flattened
Measure(yii, j) == [i \in DOMAIN yii |-> yii[i][j]]

----------------------------------------------------------------------------
(* Statistics *)

\* Positive with the filter >= 0, which keeps the zeros
PositiveOrZero(s) == SelectSeq(s, LAMBDA v : v.k = "inf" \/ (v.k = "fin" /\ v.n >= 0))

\* the elements that survive yii.where(yii > 0) once nan is skipped
Positive(s) == SelectSeq(s, GtZero)

RECURSIVE Insert(_, _)
Insert(s, v) ==
    IF s = <<>> THEN <<v>>
    ELSE IF FLeq(v, Head(s)) THEN <<v>> \o s
    ELSE <<Head(s)>> \o Insert(Tail(s), v)

RECURSIVE Sort(_)
Sort(s) == IF s = <<>> THEN <<>> ELSE Insert(Sort(Tail(s)), Head(s))

\* median over x, y of the values > 0 (nan when there is none)
Median(s) ==
    LET t == Sort(Positive(s))
        n == Len(t)
    IN  IF n = 0 THEN NaN
        ELSE IF n % 2 = 1 THEN t[(n + 1) \div 2]
        ELSE FMean(t[n \div 2], t[n \div 2 + 1])

\* max over x, y of the values > 0 (nan when there is none)
Max(s) ==
    LET t == Sort(Positive(s))
    IN  IF t = <<>> THEN NaN ELSE t[Len(t)]

Occurrences(t, v) == Cardinality({i \in DOMAIN t : t[i] = v})

\* stats.mode(..., nan_policy="omit") of the values > 0: the most frequent
\* value, the smallest one of them on a tie (nan when there is none)
Mode(s) ==
    LET t == Sort(Positive(s))
        best == {i \in DOMAIN t :
                    \A k \in DOMAIN t : Occurrences(t, t[k]) <= Occurrences(t, t[i])}
    IN  IF t = <<>> THEN NaN
        ELSE t[CHOOSE i \in best : \A k \in best : i <= k]

----------------------------------------------------------------------------
(* _create_histogram *)

\* a uniform edge of range=(0, 1): k/100
BinEdge(k) == Frac(k, NBins)

\* yii_bins: the 101 edges np.histogram(..., 100, range=(0, 1)) returns,
\* numbered 0..100; they do not depend on the data
yii_bins == [k \in 0..NBins |-> BinEdge(k)]

\* InRange with the top edge left out: 0 <= v < 1
InRangeHalfOpen(v) == v.k = "fin" /\ v.n >= 0 /\ v.n < v.d

\* the values np.histogram keeps for range=(0, 1): 0 <= v <= 1
InRange(v) == v.k = "fin" /\ v.n >= 0 /\ v.n <= v.d

\* the bin of a kept value: [k/100, (k+1)/100), the last bin closed at 1
BinOf(v) ==
    IF v.n = v.d THEN NBins - 1 ELSE (v.n * NBins) \div v.d

\* yii_img[np.where(yii_img > 0)]
Selected(img) == SelectSeq(img, GtZero)

\* yii_hist: the count of every bin, bins numbered 0..99
Histogram(img) ==
    LET kept == SelectSeq(Selected(img), InRange)
        bin == [i \in DOMAIN kept |-> BinOf(kept[i])]
        hit == {bin[i] : i \in DOMAIN kept}
    IN  [k \in 0..(NBins - 1) |->
            IF k \in hit THEN Cardinality({i \in DOMAIN kept : bin[i] = k}) ELSE 0]

\* np.argmax: the first index holding the highest count
ArgMax(h) ==
    LET counts == {h[k] : k \in DOMAIN h}
        highest == CHOOSE v \in counts : \A w \in counts : w <= v
        at == {k \in DOMAIN h : h[k] = highest}
    IN  CHOOSE k \in at : \A q \in at : k <= q

\* np.around(edge, decimals=2)
Around2(v) == Frac((2 * v.n * 100 + v.d) \div (2 * v.d), 100)

\* np.around(hist_df[mlabel].values.tolist(), decimals=2).tolist()
RoundedEdges == [k \in 1..NBins |-> Around2(yii_bins[k - 1])]

\* hist_df and hist_fig of _create_histogram(yii_img, mlabel): the table has
\* the columns 'Plant Pixels' (counts) and mlabel (lower bin edges, that is
\* yii_bins[:-1]); the figure carries the title and the "Peak Bin Value"
\* annotation
_create_histogram(img, mlabel) ==
    LET yii_hist == Histogram(img)
        max_bin == yii_bins[ArgMax(yii_hist)]
        hist_df == [pixels |-> [k \in 1..NBins |-> yii_hist[k - 1]],
                    column |-> mlabel,
                    edges |-> [k \in 1..NBins |-> yii_bins[k - 1]]]
        hist_fig == [title |-> "measurement: " \o mlabel, peak |-> max_bin]
    IN  <<hist_df, hist_fig>>

----------------------------------------------------------------------------
(* analyze_yii *)

ShapeError == "Mask needs to have shape"
BinaryError == "Mask must have dtype uint8 and be binary"
LabelError == "measurement_labels must be the same length as the number of measurements in the DataArray"
UnboundError == "UnboundLocalError: yii"

\* measurement_labels=None, and a supplied list
None == [given |-> FALSE, list |-> <<>>]
Labels(l) == [given |-> TRUE, list |-> l]

\* ps_da.shape[:2]
Extent(ps) == SubSeq(ps.shape, 1, 2)

\* Validate with the binarity check made before the shape check
ValidateBinaryFirst(ps, m, ml) ==
    IF NumUnique(m) > 2 \/ m.dtype # "uint8" THEN BinaryError
    ELSE IF m.shape # Extent(ps) THEN ShapeError
    ELSE IF ml.given /\ Len(ml.list) # Len(ps.measurement) THEN LabelError
    ELSE ""

\* Validate with the dtype of the mask left unchecked
ValidateNoDtype(ps, m, ml) ==
    IF m.shape # Extent(ps) THEN ShapeError
    ELSE IF NumUnique(m) > 2 THEN BinaryError
    ELSE IF ml.given /\ Len(ml.list) # Len(ps.measurement) THEN LabelError
    ELSE ""

\* Validate with the label-count failure reported through the message of
\* the check above it
ValidateLabelWrongMessage(ps, m, ml) ==
    IF m.shape # Extent(ps) THEN ShapeError
    ELSE IF NumUnique(m) > 2 \/ m.dtype # "uint8" THEN BinaryError
    ELSE IF ml.given /\ Len(ml.list) # Len(ps.measurement) THEN BinaryError
    ELSE ""

\* the three precondition checks, in the order of the code: the message of
\* the first fatal_error reached, "" when every check passes
Validate(ps, m, ml) ==
    IF m.shape # Extent(ps) THEN ShapeError
    ELSE IF NumUnique(m) > 2 \/ m.dtype # "uint8" THEN BinaryError
    ELSE IF ml.given /\ Len(ml.list) # Len(ps.measurement) THEN LabelError
    ELSE ""

\* var = ps_da.name.lower() selects the formula; no branch binds yii for any
\* other name
Recognised(ps) == Lower(ps.name) \in {"darkadapted", "lightadapted"}

ComputeYii(ps, m) ==
    IF Lower(ps.name) = "darkadapted"
    THEN DarkYii(Where(ps, m))
    ELSE LightYii(Where(ps, m), Len(ps.measurement))

\* MLabel with the supplied labels ignored
MLabelCoordinateOnly(ps, ml, i) == ps.measurement[i]

\* the label of measurement i inside the loop
MLabel(ps, ml, i) == IF ml.given THEN ml.list[i] ELSE ps.measurement[i]

Observation(variable, trait, datatype, value, lbl) ==
    [sample |-> "default", variable |-> variable, trait |-> trait,
     method |-> "plantcv.plantcv.photosynthesis.analyze_yii", scale |-> "none",
     datatype |-> datatype, value |-> value, label |-> lbl]

\* loop iteration i: the four outputs.add_observation calls in order, the
\* _debug call, and the figure hist_fig is bound to
LoopBody(ps, ml, yii, i) ==
    LET mlabel == MLabel(ps, ml, i)
        hist == _create_histogram(Measure(yii, i), mlabel)
        hist_df == hist[1]
    IN  [obs |->
            << Observation("yii_median_" \o mlabel, "median yii value", "float",
                           Median(Measure(yii, i)), "none"),
               Observation("yii_mode_" \o mlabel, "mode yii value", "float",
                           Mode(Measure(yii, i)), "none"),
               Observation("yii_max_" \o mlabel, "peak yii value", "float",
                           Max(Measure(yii, i)), "none"),
               Observation("yii_hist_" \o mlabel, "yii frequencies", "list",
                           hist_df.pixels, RoundedEdges) >>,
         dbg |-> <<"_YII_" \o mlabel \o "_histogram.png">>,
         fig |-> hist[2]]

\* iterations 1..n of the loop: what they append to the store, what they
\* hand to _debug, and the figure of the last iteration
RECURSIVE Loop(_, _, _, _)
Loop(ps, ml, yii, n) ==
    IF n = 0 THEN [obs |-> <<>>, dbg |-> <<>>, fig |-> <<>>]
    ELSE LET before == Loop(ps, ml, yii, n - 1)
             body == LoopBody(ps, ml, yii, n)
         IN  [obs |-> before.obs \o body.obs,
              dbg |-> before.dbg \o body.dbg,
              fig |-> body.fig]

\* a call that raises: nothing was recorded, nothing is returned
Aborted(msg) ==
    [raised |-> msg, ret |-> <<>>, obs |-> <<>>, img |-> <<>>, dbg |-> <<>>]

\* a call that runs to its return statement: the observations of the loop,
\* the efficiency map appended to outputs.images, the visuals handed to
\* _debug (one per measurement, then the map), and the returned pair
Completed(ps, m, ml) ==
    LET yii == ComputeYii(ps, m)
        loop == Loop(ps, ml, yii, Len(ps.measurement))
    IN  [raised |-> "", ret |-> <<yii, loop.fig>>, obs |-> loop.obs,
         img |-> <<yii>>, dbg |-> loop.dbg \o <<"_YII_dataarray.png">>]

\* Run with the label count checked after the loop instead of before it
RunLabelCheckAfterLoop(ps, m, ml) ==
    IF Validate(ps, m, ml) = LabelError /\ Recognised(ps)
    THEN [Completed(ps, m, None) EXCEPT !.raised = LabelError, !.ret = <<>>]
    ELSE IF Validate(ps, m, ml) # "" THEN Aborted(Validate(ps, m, ml))
    ELSE IF ~Recognised(ps) THEN Aborted(UnboundError)
    ELSE Completed(ps, m, ml)

\* Run with yii bound to nothing before the branches, so that an
\* unrecognised name falls through to an empty return
RunSilentFallThrough(ps, m, ml) ==
    IF Validate(ps, m, ml) # "" THEN Aborted(Validate(ps, m, ml))
    ELSE IF ~Recognised(ps) THEN Aborted("")
    ELSE Completed(ps, m, ml)

\* the body of analyze_yii: the fatal checks, then the statistics, whose
\* first statement reads yii and raises when no branch has bound it, then
\* the loop and the return
Run(ps, m, ml) ==
    IF Validate(ps, m, ml) # "" THEN Aborted(Validate(ps, m, ml))
    ELSE IF ~Recognised(ps) THEN Aborted(UnboundError)
    ELSE Completed(ps, m, ml)

\* one call analyze_yii(ps, m, measurement_labels=ml)
analyze_yii(ps, m, ml) ==
    LET out == Run(ps, m, ml)
    IN  /\ ps_da' = ps
        /\ mask' = m
        /\ measurement_labels' = ml
        /\ raised' = out.raised
        /\ ret' = out.ret
        /\ observations' = observations \o out.obs
        /\ images' = images \o out.img
        /\ debug' = debug \o out.dbg
        /\ UNCHANGED <<yii_img, hist_ret>>

\* one direct call _create_histogram(img, mlabel)
CreateHistogram(img, mlabel) ==
    /\ yii_img' = img
    /\ hist_ret' = _create_histogram(img, mlabel)
    /\ UNCHANGED <<ps_da, mask, measurement_labels, raised, ret, observations,
                   images, debug>>

----------------------------------------------------------------------------
(* The arguments the calls are made with *)

\* the frames a stack of the given name holds
FramesOf(name) ==
    IF Lower(name) = "lightadapted" THEN {"Fp", "Fmp"} ELSE {"F0", "Fm"}

Stack(name, rows, cols, axis, data) ==
    [name |-> name,
     shape |-> <<rows, cols, Cardinality(FramesOf(name)), Len(axis)>>,
     frame_label |-> FramesOf(name),
     measurement |-> axis,
     data |-> data]

\* the stacks of the given names, extent and measurement axes whose elements
\* take every combination of the values vals
StacksOf(names, rows, cols, axes, vals) ==
    UNION { { Stack(nm, rows, cols, ax, d) :
                d \in [1..(rows * cols) -> [FramesOf(nm) -> [1..Len(ax) -> vals]]] } :
            nm \in names, ax \in axes }

\* the stack whose frames are constant: hi in Fm / Fmp, lo in F0 / Fp
UniformStack(name, rows, cols, axis, lo, hi) ==
    Stack(name, rows, cols, axis,
          [i \in 1..(rows * cols) |->
              [f \in FramesOf(name) |->
                  [j \in 1..Len(axis) |-> IF f \in {"Fm", "Fmp"} THEN hi ELSE lo]]])

\* the masks of the given shape and dtypes whose elements take every
\* combination of the values vals
MasksOf(rows, cols, dtypes, vals) ==
    { [shape |-> <<rows, cols>>, dtype |-> dt, data |-> d] :
        dt \in dtypes, d \in [1..(rows * cols) -> vals] }

\* the measurement axes of the stacks: one or two time points
Axes == {<<"t0">>, <<"t0", "t1">>}

\* the names the stacks carry
Names == {"DarkAdapted", "lightadapted", "Chlorophyll"}

\* the measurement_labels arguments
LabelArgs == {None, Labels(<<"a">>), Labels(<<"a", "b">>)}

(* Sequences of calls on 1 x 1 stacks *)

SeqStacks == { UniformStack(nm, 1, 1, ax, 1, MaxVal) : nm \in Names, ax \in Axes }

SeqMasks ==
    MasksOf(1, 1, {"uint8", "float64"}, {0, 1})
        \cup MasksOf(1, 2, {"uint8"}, {1})

(* Calls with every kind of mask, 1 x 3 or 3 x 1, on 1 x 3 stacks *)

ArgStacks == { UniformStack(nm, 1, 3, <<"t0", "t1">>, 1, MaxVal) : nm \in Names }

ArgMasks ==
    MasksOf(1, 3, {"uint8", "float64"}, {0, 1, 255})
        \cup MasksOf(3, 1, {"uint8", "float64"}, {0, 1, 255})

(* Calls on 1 x 2 stacks of every content *)

\* the stacks of two measurements whose Fm / Fmp frame takes every
\* combination of the values vals and whose F0 / Fp frame takes every
\* combination that is the same in both measurements
RepeatedStacksOf(names, rows, cols, vals) ==
    UNION { { Stack(nm, rows, cols, <<"t0", "t1">>,
                    [i \in 1..(rows * cols) |->
                        [f \in FramesOf(nm) |->
                            [j \in 1..2 |->
                                IF f \in {"Fm", "Fmp"} THEN hi[i][j] ELSE lo[i]]]]) :
                hi \in [1..(rows * cols) -> [1..2 -> vals]],
                lo \in [1..(rows * cols) -> vals] } :
            nm \in names }

YiiStacks ==
    StacksOf({"darkadapted", "lightadapted"}, 1, 2, {<<"t0">>}, 0..MaxVal)
        \cup RepeatedStacksOf({"darkadapted", "lightadapted"}, 1, 2, 0..MaxVal)

YiiMasks == MasksOf(1, 2, {"uint8"}, {0, 1, 255})

(* Direct calls of _create_histogram *)

HistVals ==
    {NaN, Inf, NegInf, Frac(-1, 2), Frac(0, 1), Frac(1, 200), Frac(1, 100),
     Frac(1, 2), Frac(1, 1), Frac(3, 2)}

HistInputs == UNION { [1..n -> HistVals] : n \in 0..MaxLen }

----------------------------------------------------------------------------
(* Specifications *)

Init ==
    /\ ps_da = <<>>
    /\ mask = <<>>
    /\ measurement_labels = None
    /\ raised = ""
    /\ ret = <<>>
    /\ observations = <<>>
    /\ images = <<>>
    /\ debug = <<>>
    /\ yii_img = <<>>
    /\ hist_ret = <<>>

\* any sequence of calls, followed until MaxImages of them have succeeded
Next ==
    /\ Len(images) < MaxImages
    /\ \E ps \in SeqStacks, m \in SeqMasks, ml \in LabelArgs : analyze_yii(ps, m, ml)

Spec == Init /\ [][Next]_vars

\* calls in a fresh process, followed until the first one succeeds
NextArgs ==
    /\ images = <<>>
    /\ \E ps \in ArgStacks, m \in ArgMasks, ml \in LabelArgs : analyze_yii(ps, m, ml)

SpecArgs == Init /\ [][NextArgs]_vars

NextYii ==
    /\ images = <<>>
    /\ \E ps \in YiiStacks, m \in YiiMasks : analyze_yii(ps, m, None)

SpecYii == Init /\ [][NextYii]_vars

NextHist ==
    /\ hist_ret = <<>>
    /\ \E img \in HistInputs : CreateHistogram(img, "t0")

SpecHist == Init /\ [][NextHist]_vars

----------------------------------------------------------------------------
(* Properties *)

\* a call has been made: it raised or it returned
Called == raised # "" \/ ret # <<>>

\* the checks of the mask, stated on the arguments of the last call
ShapeMatches == mask.shape = <<ps_da.shape[1], ps_da.shape[2]>>
MaskIsBinaryUint8 ==
    /\ mask.dtype = "uint8"
    /\ \A a, b, c \in DOMAIN mask.data :
          mask.data[a] = mask.data[b] \/ mask.data[a] = mask.data[c]
              \/ mask.data[b] = mask.data[c]
LabelCountMatches ==
    measurement_labels.given =>
        Len(measurement_labels.list) = Len(ps_da.measurement)

\* C1: a call whose mask shape differs from the stack's (row, column) extent
\* ends with the shape error, whatever the dtype, the values and the labels
C1_ShapeMismatchIsShapeError ==
    (Called /\ ~ShapeMatches) => raised = ShapeError

\* a shape mismatch that comes with a float mask and a wrong label count
C1_Witness ==
    /\ Called
    /\ ~ShapeMatches
    /\ ~MaskIsBinaryUint8
    /\ ~LabelCountMatches
    /\ raised = ShapeError

\* C2 as stated: a mask with three or more distinct values, or not uint8,
\* always ends the call with the binarity error
C2_Original ==
    (Called /\ ~MaskIsBinaryUint8) => raised = BinaryError

\* C2, amended: a mask of the stack's extent with three or more distinct
\* values, or not uint8, ends the call with the binarity error, whatever the
\* stack holds and whatever the labels are
C2_NonBinaryIsBinaryError ==
    (Called /\ ShapeMatches /\ ~MaskIsBinaryUint8) => raised = BinaryError

\* a uint8 mask of the right shape with three distinct values
C2_Witness ==
    /\ Called
    /\ ShapeMatches
    /\ mask.dtype = "uint8"
    /\ Cardinality({mask.data[i] : i \in DOMAIN mask.data}) = 3
    /\ raised = BinaryError

\* C3 as stated: supplied labels of the wrong count always end the call with
\* the label-count error, and a call without labels never does
C3_Original ==
    /\ (Called /\ ~LabelCountMatches) => raised = LabelError
    /\ (Called /\ ~measurement_labels.given) => raised # LabelError

\* C3, amended: when the mask passes the shape and the binarity check,
\* supplied labels of the wrong count end the call with the label-count
\* error; a call without labels never ends with it
C3_LabelCountIsLabelError ==
    /\ (Called /\ ShapeMatches /\ MaskIsBinaryUint8 /\ ~LabelCountMatches)
          => raised = LabelError
    /\ (Called /\ ~measurement_labels.given) => raised # LabelError

\* a label-count error on a stack whose name no branch recognises
C3_Witness ==
    /\ Called
    /\ ShapeMatches /\ MaskIsBinaryUint8 /\ ~LabelCountMatches
    /\ ps_da.name = "Chlorophyll"
    /\ raised = LabelError

\* the three fatal validation errors
FatalErrors == {ShapeError, BinaryError, LabelError}

\* C4: a call that fails one of the three precondition checks leaves the
\* observation store, the images collection and the debug output exactly as
\* they were before the call, wherever in a sequence of calls it is made
C4_FailedCheckEmitsNothing ==
    [][raised' \in FatalErrors =>
          (observations' = observations /\ images' = images /\ debug' = debug)]_vars

\* a failed check after a successful call: the store is not empty
C4_Witness ==
    /\ raised \in FatalErrors
    /\ Len(observations) >= 4
    /\ Len(images) >= 1

\* the arguments of the call that ends in the primed state pass validation
PassesValidation ==
    /\ mask'.shape = <<ps_da'.shape[1], ps_da'.shape[2]>>
    /\ mask'.dtype = "uint8"
    /\ Cardinality({mask'.data[i] : i \in DOMAIN mask'.data}) <= 2
    /\ measurement_labels'.given =>
          Len(measurement_labels'.list) = Len(ps_da'.measurement)

\* the variant tag of that call is one of the two that have a formula
VariantKnown ==
    ps_da'.name \in {"darkadapted", "DarkAdapted", "lightadapted"}

\* the suffix of the observations of measurement i of that call
Suffix(i) ==
    IF measurement_labels'.given THEN measurement_labels'.list[i]
    ELSE ps_da'.measurement[i]

\* the call appended 4*N observations (median, mode, max, histogram of each
\* measurement in axis order, suffixed with the measurement's label) and one
\* efficiency map, the one it returned
RecordedFourPerMeasurement ==
    LET n == Len(ps_da'.measurement)
        old == Len(observations)
    IN  /\ Len(observations') = old + 4 * n
        /\ SubSeq(observations', 1, old) = observations
        /\ \A i \in 1..n :
              /\ observations'[old + 4 * (i - 1) + 1].variable = "yii_median_" \o Suffix(i)
              /\ observations'[old + 4 * (i - 1) + 2].variable = "yii_mode_" \o Suffix(i)
              /\ observations'[old + 4 * (i - 1) + 3].variable = "yii_max_" \o Suffix(i)
              /\ observations'[old + 4 * (i - 1) + 4].variable = "yii_hist_" \o Suffix(i)
        /\ raised' = ""
        /\ images' = Append(images, ret'[1])

\* C5 as stated: every call that passes validation records 4*N observations
\* and appends one efficiency map
C5_Original == [][PassesValidation => RecordedFourPerMeasurement]_vars

\* C5, amended: a call that passes validation on a stack of N measurements
\* whose variant tag is "darkadapted" or "lightadapted" (in any case) records
\* exactly those 4*N observations and appends exactly one efficiency map; over
\* any sequence of calls the store only grows, and a call that records
\* anything records 4*N
C5_FourObservationsPerMeasurement ==
    [][/\ (PassesValidation /\ VariantKnown) => RecordedFourPerMeasurement
       /\ Len(observations') >= Len(observations)
       /\ SubSeq(observations', 1, Len(observations)) = observations
       /\ Len(observations') - Len(observations) \in {0, 4 * Len(ps_da'.measurement)}
       /\ Len(observations') > Len(observations) => raised' = ""]_vars

\* a second successful call, on two measurements, with labels supplied
C5_Witness ==
    /\ raised = "" /\ ret # <<>>
    /\ Len(images) = 2
    /\ Len(ps_da.measurement) = 2
    /\ measurement_labels.given
    /\ observations[Len(observations)].variable = "yii_hist_b"

\* C6 as stated: on a stack whose variant tag is neither "darkadapted" nor
\* "lightadapted", a call that passes validation raises no error and records
\* no observation
C6_Original ==
    [][(PassesValidation /\ ~VariantKnown) =>
          (raised' = "" /\ observations' = observations)]_vars

\* C6, amended: on such a stack a call that passes validation ends with an
\* UnboundLocalError for yii, raised by the first statistics statement; it
\* returns nothing, records no observation, appends no image and hands
\* nothing to _debug
C6_UnknownVariantRaisesUnbound ==
    [][(PassesValidation /\ ~VariantKnown) =>
          /\ raised' = UnboundError
          /\ ret' = <<>>
          /\ observations' = observations
          /\ images' = images
          /\ debug' = debug]_vars

\* an unrecognised stack analysed after a successful call
C6_Witness ==
    /\ raised = UnboundError
    /\ ps_da.name = "Chlorophyll"
    /\ Len(observations) >= 4

\* the last call returned, and the stack it analysed was dark-adapted
DarkReturned == raised = "" /\ ret # <<>> /\ ps_da.name = "darkadapted"

Pixels == DOMAIN ps_da.data
Measurements == DOMAIN ps_da.measurement
Fm(i, j) == ps_da.data[i]["Fm"][j]
F0(i, j) == ps_da.data[i]["F0"][j]
Zero == [k |-> "fin", n |-> 0, d |-> 1]
Half == [k |-> "fin", n |-> 1, d |-> 2]

\* every mask pixel is 1 and frame Fm equals frame F0 everywhere
AllInAndFmIsF0 ==
    /\ \A i \in Pixels : mask.data[i] = 1
    /\ \A i \in Pixels, j \in Measurements : Fm(i, j) = F0(i, j)

\* C7 as stated: with every pixel masked in and Fm = F0 everywhere, the map
\* is zero, and finite, at every pixel and measurement, for every frame value
C7_Original ==
    (DarkReturned /\ AllInAndFmIsF0) =>
        \A i \in Pixels, j \in Measurements : ret[1][i][j] = Zero

\* C7, amended: with every pixel masked in and Fm = F0 everywhere, the map
\* is zero where the common frame value is not 0, and nan (0/0) where it is 0
C7_ZeroWhereFmNonZero ==
    (DarkReturned /\ AllInAndFmIsF0) =>
        \A i \in Pixels, j \in Measurements :
            IF Fm(i, j) # 0 THEN ret[1][i][j] = Zero ELSE ret[1][i][j].k = "nan"

\* two measurements, one pixel with Fm = F0 = 0 and one with Fm = F0 > 0
C7_Witness ==
    /\ DarkReturned /\ AllInAndFmIsF0
    /\ Len(ps_da.measurement) = 2
    /\ \E i \in Pixels : Fm(i, 1) = 0 /\ ret[1][i][1].k = "nan"
    /\ \E i \in Pixels : Fm(i, 1) > 0 /\ ret[1][i][1] = Zero

\* v is the float of the quotient num / den of two integers
IsQuotient(v, num, den) ==
    IF den # 0 THEN v.k = "fin" /\ v.d > 0 /\ v.n * den = num * v.d
    ELSE IF num = 0 THEN v.k = "nan"
    ELSE IF num > 0 THEN v.k = "inf"
    ELSE v.k = "ninf"

\* C8: in a dark-adapted map a pixel whose mask value is 0 is non-finite at
\* every measurement, whatever its frames hold, and a pixel whose mask value
\* is not 0 carries (Fm - F0) / Fm of its own frame values
C8_MaskedOutIsNonFinite ==
    DarkReturned =>
        \A i \in Pixels, j \in Measurements :
            IF mask.data[i] = 0 THEN ret[1][i][j].k # "fin"
            ELSE IsQuotient(ret[1][i][j], Fm(i, j) - F0(i, j), Fm(i, j))

\* two measurements, a masked-out pixel with non-zero frames next to a
\* masked-in pixel whose efficiency is 1/2
C8_Witness ==
    /\ DarkReturned
    /\ Len(ps_da.measurement) = 2
    /\ \E i \in Pixels : mask.data[i] = 0 /\ Fm(i, 2) = 2 /\ F0(i, 2) = 1
                          /\ ret[1][i][2].k = "nan"
    /\ \E i \in Pixels : mask.data[i] = 1 /\ ret[1][i][2] = Half

\* the pixels of measurement j whose efficiency is finite and > 0
Valid(j) == {i \in DOMAIN ret[1] : ret[1][i][j].k = "fin" /\ ret[1][i][j].n > 0}

Lt(a, b) == a.n * b.d < b.n * a.d
Le(a, b) == a.n * b.d <= b.n * a.d

\* v is the k-th smallest efficiency among the valid pixels of measurement j
IsKth(v, j, k) ==
    /\ \E i \in Valid(j) : ret[1][i][j] = v
    /\ Cardinality({i \in Valid(j) : Lt(ret[1][i][j], v)}) < k
    /\ k <= Cardinality({i \in Valid(j) : Le(ret[1][i][j], v)})

\* v is the median of the valid pixels of measurement j
IsMedian(v, j) ==
    LET n == Cardinality(Valid(j))
    IN  IF n = 0 THEN v.k = "nan"
        ELSE IF n % 2 = 1 THEN IsKth(v, j, (n + 1) \div 2)
        ELSE \E a, b \in {ret[1][i][j] : i \in Valid(j)} :
                /\ IsKth(a, j, n \div 2)
                /\ IsKth(b, j, n \div 2 + 1)
                /\ v.k = "fin"
                /\ 2 * v.n * a.d * b.d = v.d * (a.n * b.d + b.n * a.d)

\* v is the maximum of the valid pixels of measurement j
IsMax(v, j) ==
    IF Valid(j) = {} THEN v.k = "nan"
    ELSE IsKth(v, j, Cardinality(Valid(j)))

Times(v, j) == Cardinality({i \in Valid(j) : ret[1][i][j] = v})

\* v is the most frequent value of the valid pixels of measurement j, the
\* smallest such value
IsMode(v, j) ==
    IF Valid(j) = {} THEN v.k = "nan"
    ELSE /\ Times(v, j) > 0
         /\ \A i \in Valid(j) :
               \/ Times(ret[1][i][j], j) < Times(v, j)
               \/ (Times(ret[1][i][j], j) = Times(v, j) /\ Le(v, ret[1][i][j]))

\* the k-th observation (1 median, 2 mode, 3 max) of measurement j of a call
\* made on an empty store
Stat(j, k) == observations[4 * (j - 1) + k]

\* C9: the median, mode and max observations of measurement j are those of
\* exactly the pixels of measurement j whose efficiency is finite and > 0;
\* with F0 = 1 and Fm = 2 at every pixel of a dark-adapted stack and every
\* pixel masked in, all three are 0.5
C9_StatisticsOverValidPixels ==
    (raised = "" /\ ret # <<>>) =>
        /\ \A j \in Measurements :
              /\ Stat(j, 1).variable = "yii_median_" \o ps_da.measurement[j]
              /\ IsMedian(Stat(j, 1).value, j)
              /\ Stat(j, 2).variable = "yii_mode_" \o ps_da.measurement[j]
              /\ IsMode(Stat(j, 2).value, j)
              /\ Stat(j, 3).variable = "yii_max_" \o ps_da.measurement[j]
              /\ IsMax(Stat(j, 3).value, j)
        /\ ( /\ ps_da.name = "darkadapted"
             /\ \A i \in Pixels : mask.data[i] > 0
             /\ \A i \in Pixels, j \in Measurements : F0(i, j) = 1 /\ Fm(i, j) = 2 )
           => \A j \in Measurements, k \in 1..3 : Stat(j, k).value = Half

\* two measurements: the first has a zero and a valid pixel, the second two
\* valid pixels with different values, so that the statistics of the two
\* measurements differ and the median of the second lies between its pixels
C9_Witness ==
    /\ raised = "" /\ ret # <<>>
    /\ Len(ps_da.measurement) = 2
    /\ Cardinality(Valid(1)) = 1
    /\ \E i \in DOMAIN ret[1] : ret[1][i][1] = Zero
    /\ Cardinality(Valid(2)) = 2
    /\ Stat(2, 1).value # Stat(2, 3).value
    /\ Stat(1, 1).value # Stat(2, 1).value

\* the value at position i of the array handed to _create_histogram passes
\* the > 0 filter and lies in [0, 1]
Counted(i) == yii_img[i].k = "fin" /\ yii_img[i].n > 0 /\ yii_img[i].n <= yii_img[i].d

\* that value lies in bin k of 1..100: [(k-1)/100, k/100), the last bin
\* closed at 1
InBin(i, k) ==
    /\ (k - 1) * yii_img[i].d <= NBins * yii_img[i].n
    /\ \/ NBins * yii_img[i].n < k * yii_img[i].d
       \/ (k = NBins /\ yii_img[i].n = yii_img[i].d)

RECURSIVE SumOver(_, _)
SumOver(f, S) ==
    IF S = {} THEN 0
    ELSE LET k == CHOOSE x \in S : TRUE IN f[k] + SumOver(f, S \ {k})

\* C10: _create_histogram returns 100 bins of equal width over [0, 1]
\* whatever the data; every value that is > 0 and within [0, 1] is counted in
\* exactly one bin, its own, and no other value is counted, so the counts sum
\* to the number of such values; the peak is the lower edge of a bin with the
\* highest count
C10_FixedBinsCountConservation ==
    hist_ret # <<>> =>
        LET counts == hist_ret[1].pixels
            edges == hist_ret[1].edges
        IN  /\ Len(counts) = NBins /\ Len(edges) = NBins
            /\ \A k \in 1..NBins :
                  /\ edges[k].k = "fin" /\ edges[k].d > 0
                  /\ edges[k].n * NBins = (k - 1) * edges[k].d
                  /\ counts[k] = Cardinality({i \in DOMAIN yii_img :
                                                 Counted(i) /\ InBin(i, k)})
            /\ \A i \in DOMAIN yii_img :
                  Counted(i) => Cardinality({k \in 1..NBins : InBin(i, k)}) = 1
            /\ SumOver(counts, {k \in 1..NBins : counts[k] > 0})
                  = Cardinality({i \in DOMAIN yii_img : Counted(i)})
            /\ \E k \in 1..NBins :
                  /\ hist_ret[2].peak = edges[k]
                  /\ \A q \in 1..NBins : counts[q] <= counts[k]

\* an array holding the value 1 (counted in the last bin), a value above 1
\* and an infinite value (both left out)
C10_Witness ==
    /\ hist_ret # <<>>
    /\ \E a, b, c \in DOMAIN yii_img :
          /\ yii_img[a] = [k |-> "fin", n |-> 1, d |-> 1]
          /\ yii_img[b] = [k |-> "fin", n |-> 3, d |-> 2]
          /\ yii_img[c].k = "inf"
    /\ hist_ret[1].pixels[NBins] = 1
    /\ hist_ret[2].peak = [k |-> "fin", n |-> 99, d |-> 100]

====
